---------------------------- MODULE Spec2Model ----------------------------
(***************************************************************************)
(* Toy Agent Backend (app/): the relational tables the request handlers    *)
(* read and write, and the handlers of /auth, /parent and /toy.            *)
(*                                                                         *)
(* Each request runs in its own database session (database.get_db).  The   *)
(* specifications SpecAuth, SpecChild and SpecToy run one handler at a     *)
(* time, each handler as one action.  SpecAuthConc and SpecChildConc run   *)
(* several requests at once, one action per database round trip, under     *)
(* read-committed isolation: a statement sees what was committed before    *)
(* it, and a session's writes become visible at its commit.                *)
(***************************************************************************)
EXTENDS Integers, Sequences, FiniteSets, TLC

VARIABLES
    parents,          \* table parents: id -> row
    refresh_tokens,   \* table refresh_tokens: set of rows
    api_keys,         \* table api_keys: set of rows
    children,         \* table children: id -> row
    analytics,        \* table child_analytics: child id -> row (child_id is unique)
    toys,             \* table toys: id -> row
    conversations,    \* table conversations: id -> row
    messages,         \* table messages: set of rows
    issuedAccess,     \* the access tokens handed to clients so far (JWT payloads)
    issuedRaw,        \* the number of raw refresh tokens handed to clients so far
    now,              \* the clock, in seconds
    resp,             \* the last request served and its response
    consumed,         \* the raw refresh tokens a refresh has succeeded with
    reqs              \* the requests in flight (concurrent specifications)

vars == <<parents, refresh_tokens, api_keys, children, analytics, toys,
          conversations, messages, issuedAccess, issuedRaw, now, resp,
          consumed, reqs>>

authVars == <<parents, refresh_tokens, issuedAccess, issuedRaw>>
domainVars == <<children, analytics, toys, conversations, messages>>

-----------------------------------------------------------------------------
(* Bounds of the model *)

\* raw refresh tokens (token pairs) issued in one behaviour
MaxTokens == 3
\* logouts per parent in one behaviour
MaxLogouts == 2
\* requests started in one behaviour of a concurrent specification
MaxReqs == 2
\* questions a behaviour asks
MaxQuestions == 2

(* Program constants *)

ACCESS_TOKEN_MINUTES == 15
REFRESH_TOKEN_DAYS == 30
SecondsPerMinute == 60
SecondsPerDay == 86400
MaxChildrenPerParent == 3

\* a nullable column holding no value; ids start at 1
NULL == -1

ParentIds == {1, 2}
ToyIds == {1}
Emails == {"a@x", "b@x", "c@x"}

\* bcrypt reads the first 72 bytes of a password
BCRYPT_MAX_BYTES == 72

\* a password: its length in bytes, and the bytes bcrypt reads (the first 72)
Pw(body, bytes) == [body |-> body, bytes |-> bytes]

Passwords == {Pw("pw-a", 10), Pw("pw-b", 10)}

-----------------------------------------------------------------------------
(* app/auth.py *)

\* bcrypt via passlib: the stored value is not the raw password, and it is a
\* function of the first 72 bytes alone (passlib's truncate_error is off)
hash_password(password) == <<"bcrypt", password.body>>

verify_password(raw, hashed) == hashed = hash_password(raw)

\* HMAC-SHA256 under the server secret: injective on the raw tokens issued
hash_refresh_token(raw) == <<"hmac", raw>>

RefreshLifetime == REFRESH_TOKEN_DAYS * SecondsPerDay

\* timedelta(minutes=ACCESS_TOKEN_MINUTES)
AccessLifetime == ACCESS_TOKEN_MINUTES * SecondsPerMinute

\* the signing key of the deployment (JWT_SECRET_KEY)
SECRET_KEY == "secret"

\* the payload create_access_token signs at second t, and the key it is signed with
AccessTokenAt(pid, prow, t) ==
    [sub |-> pid, role |-> prow.role, token_version |-> prow.token_version,
     exp |-> t + AccessLifetime, sig |-> SECRET_KEY]

create_access_token(pid, prow) == AccessTokenAt(pid, prow, now)

\* the row store_refresh_token adds at second t
NewRefreshRowAt(pid, raw, t) ==
    [parent_id |-> pid, token_hash |-> hash_refresh_token(raw),
     expires_at |-> t + RefreshLifetime]

NewRefreshRow(pid, raw) == NewRefreshRowAt(pid, raw, now)

\* secrets.token_urlsafe(64): a value never issued before
create_refresh_token_raw == issuedRaw + 1

\* the rows revoke_all_refresh_tokens selects
RefreshRowsOf(pid) == {r \in refresh_tokens : r.parent_id = pid}

revoke_all_refresh_tokens(pid) == refresh_tokens \ RefreshRowsOf(pid)

\* decode_access_token: <<status, detail>>.  jose verifies the signature before
\* the claims.  Its JWTError matches neither except clause: the first names
\* ExpiredSignatureError, and evaluating the second, jwt.InvalidTokenError,
\* raises AttributeError (jose.jwt has no such name), which the server
\* answers with 500.
decode_access_token(tok) ==
    IF tok.sig # SECRET_KEY THEN <<500, "Internal Server Error">>
    ELSE IF tok.exp < now THEN <<401, "Access token expired">>
    ELSE <<200, "ok">>

\* get_current_parent: <<status, detail, parent id>>
get_current_parent(tok) ==
    IF decode_access_token(tok)[1] # 200
    THEN <<decode_access_token(tok)[1], decode_access_token(tok)[2], NULL>>
    ELSE IF tok.sub = NULL THEN <<401, "Invalid token", NULL>>
    ELSE IF tok.sub \notin DOMAIN parents \/ ~parents[tok.sub].is_active
         THEN <<401, "User inactive or not found", NULL>>
    ELSE IF parents[tok.sub].token_version # tok.token_version
         THEN <<401, "Token revoked", NULL>>
    ELSE <<200, "ok", tok.sub>>

-----------------------------------------------------------------------------
(* the initial database: two registered parents, two manufactured toys,    *)
(* one valid and one revoked API key (no endpoint creates a toy)           *)

InitParents ==
    [p \in ParentIds |->
        [email |-> IF p = 1 THEN "a@x" ELSE "b@x",
         password_hash |-> hash_password(Pw(IF p = 1 THEN "pw-a" ELSE "pw-b", 10)),
         role |-> "parent", token_version |-> 1, is_active |-> TRUE]]

InitToys ==
    [t \in ToyIds |->
        [is_active |-> FALSE, last_seen |-> NULL, active_child_id |-> NULL]]

InitApiKeys ==
    {[key |-> <<"hmac", "k1">>, revoked |-> FALSE],
     [key |-> <<"hmac", "k2">>, revoked |-> TRUE]}

NoResp == [op |-> "none", status |-> 0, cross |-> FALSE]

Init ==
    /\ parents = InitParents
    /\ refresh_tokens = {}
    /\ api_keys = InitApiKeys
    /\ children = <<>>
    /\ analytics = <<>>
    /\ toys = InitToys
    /\ conversations = <<>>
    /\ messages = {}
    /\ issuedAccess = {}
    /\ issuedRaw = 0
    /\ now = 0
    /\ resp = NoResp
    /\ consumed = {}
    /\ reqs = <<>>

-----------------------------------------------------------------------------
(* app/routes/auth_routes.py, one handler per action *)

ParentByEmail(email) == {p \in DOMAIN parents : parents[p].email = email}

\* create_token_pair for parent pid, read as prow: the new tables
IssuePair(pid, prow) ==
    /\ issuedAccess' = issuedAccess \cup {create_access_token(pid, prow)}
    /\ issuedRaw' = create_refresh_token_raw
    /\ refresh_tokens' =
          refresh_tokens \cup {NewRefreshRow(pid, create_refresh_token_raw)}

\* the width of RefreshToken.user_agent
USER_AGENT_MAX == 255

\* the response of /auth/login to a request
LoginResp(email, password, ua, status, detail) ==
    [op |-> "login", email |-> email, password |-> password, ua |-> ua,
     status |-> status, detail |-> detail]

\* ua is the length of the User-Agent header (NULL: no header).  The INSERT of
\* a refresh-token row whose user_agent exceeds VARCHAR(255) fails in
\* PostgreSQL: the commit raises and the request ends in 500.
login(email, password, ua) ==
    /\ LET found == ParentByEmail(email) IN
       IF found = {} \/ \A p \in found :
                           ~verify_password(password, parents[p].password_hash)
       THEN /\ resp' = LoginResp(email, password, ua, 401, "Invalid credentials")
            /\ UNCHANGED authVars
       ELSE LET p == CHOOSE q \in found : TRUE IN
            IF ~parents[p].is_active
            THEN /\ resp' = LoginResp(email, password, ua, 403, "Account disabled")
                 /\ UNCHANGED authVars
            ELSE IF ua > USER_AGENT_MAX
            THEN /\ resp' = LoginResp(email, password, ua, 500,
                                      "Internal Server Error")
                 /\ UNCHANGED authVars
            ELSE /\ issuedRaw < MaxTokens
                 /\ IssuePair(p, parents[p])
                 /\ resp' = [op |-> "login", email |-> email,
                             password |-> password, ua |-> ua, status |-> 200,
                             parent |-> p,
                             access_token |-> create_access_token(p, parents[p]),
                             refresh_token |-> create_refresh_token_raw]
                 /\ UNCHANGED parents
    /\ UNCHANGED <<consumed, api_keys, domainVars, now, reqs>>

StoredRefresh(raw) ==
    {r \in refresh_tokens : r.token_hash = hash_refresh_token(raw)}

\* a rotation that forgets the delete
RotateDelete_Keep(stored) == refresh_tokens

\* the rotation step of refresh: the consumed row is deleted
RotateDelete(stored) == refresh_tokens \ {stored}

\* checks that forget the account state
RefreshChecks_NoActiveTest(raw) ==
    IF StoredRefresh(raw) = {} THEN <<401, "Invalid refresh token">>
    ELSE LET stored == CHOOSE r \in StoredRefresh(raw) : TRUE IN
         IF stored.expires_at < now THEN <<401, "Refresh token expired">>
         ELSE <<200, "ok">>

\* the checks of refresh before the rotation: <<status, detail>>
RefreshChecks(raw) ==
    IF StoredRefresh(raw) = {} THEN <<401, "Invalid refresh token">>
    ELSE LET stored == CHOOSE r \in StoredRefresh(raw) : TRUE IN
         IF stored.expires_at < now THEN <<401, "Refresh token expired">>
         ELSE IF stored.parent_id \notin DOMAIN parents
                 \/ ~parents[stored.parent_id].is_active
              THEN <<401, "User inactive">>
         ELSE <<200, "ok">>

refresh(raw) ==
    LET c == RefreshChecks(raw) IN
    /\ IF c[1] # 200
       THEN /\ resp' = [op |-> "refresh", raw |-> raw, status |-> c[1],
                        detail |-> c[2]]
            /\ refresh_tokens' =
                  IF c[2] = "Refresh token expired"
                  THEN refresh_tokens \ StoredRefresh(raw)
                  ELSE refresh_tokens
            /\ UNCHANGED <<parents, issuedAccess, issuedRaw, consumed>>
       ELSE LET stored == CHOOSE r \in StoredRefresh(raw) : TRUE
                p == stored.parent_id
            IN
            /\ issuedRaw < MaxTokens
            /\ issuedAccess' =
                  issuedAccess \cup {create_access_token(p, parents[p])}
            /\ issuedRaw' = create_refresh_token_raw
            /\ refresh_tokens' =
                  RotateDelete(stored)
                     \cup {NewRefreshRow(p, create_refresh_token_raw)}
            /\ consumed' = consumed \cup {raw}
            /\ resp' = [op |-> "refresh", raw |-> raw, status |-> 200,
                        parent |-> p,
                        access_token |-> create_access_token(p, parents[p]),
                        refresh_token |-> create_refresh_token_raw]
            /\ UNCHANGED parents
    /\ UNCHANGED <<api_keys, domainVars, now, reqs>>

\* refresh when the database fails inside store_refresh_token: the rotation
\* was committed by the db.commit() before create_token_pair, the insert is lost
refresh_store_fails(raw) ==
    /\ RefreshChecks(raw)[1] = 200
    /\ LET stored == CHOOSE r \in StoredRefresh(raw) : TRUE IN
       /\ refresh_tokens' = RotateDelete(stored)
       /\ resp' = [op |-> "refresh", raw |-> raw, status |-> 500,
                   detail |-> "Internal Server Error",
                   parent |-> stored.parent_id]
    /\ UNCHANGED <<parents, issuedAccess, issuedRaw, consumed>>
    /\ UNCHANGED <<api_keys, domainVars, now, reqs>>

\* a logout that forgets the increment
BumpTokenVersion_Forgotten(pid) == parents

\* current_parent.token_version += 1
BumpTokenVersion(pid) ==
    [parents EXCEPT ![pid].token_version = @ + 1]

logout(tok) ==
    LET g == get_current_parent(tok) IN
    /\ IF g[1] # 200
       THEN /\ resp' = [op |-> "logout", token |-> tok, status |-> g[1],
                        detail |-> g[2]]
            /\ UNCHANGED authVars
       ELSE /\ parents[g[3]].token_version <= MaxLogouts
            /\ parents' = BumpTokenVersion(g[3])
            /\ refresh_tokens' = revoke_all_refresh_tokens(g[3])
            /\ resp' = [op |-> "logout", token |-> tok, status |-> 200,
                        parent |-> g[3]]
            /\ UNCHANGED <<issuedAccess, issuedRaw>>
    /\ UNCHANGED <<consumed, api_keys, domainVars, now, reqs>>

\* GET /auth/me: a handler behind get_current_parent that changes nothing
get_me(tok) ==
    LET g == get_current_parent(tok) IN
    /\ resp' = IF g[1] # 200
               THEN [op |-> "me", token |-> tok, status |-> g[1], detail |-> g[2]]
               ELSE [op |-> "me", token |-> tok, status |-> 200, parent |-> g[3]]
    /\ UNCHANGED <<authVars, consumed, api_keys, domainVars, now, reqs>>

\* the instants the clock is observed at: the last second a token issued at 0
\* is still good, and the first second it is expired, for both lifetimes
Instants == {0, AccessLifetime, AccessLifetime + 1,
             RefreshLifetime, RefreshLifetime + 1}

\* time passes, up to one of the instants S (resp holds the response of the
\* last step, and this step serves no request)
TickTo(S) ==
    /\ \E t \in S : t > now /\ now' = t
    /\ resp' = NoResp
    /\ UNCHANGED <<authVars, consumed, api_keys, domainVars, reqs>>

Tick == TickTo(Instants)

\* the stored refresh tokens of second 0 are expired
TickExpire == TickTo({RefreshLifetime + 1})

\* the raw refresh tokens a client can present: those issued, and one never issued
RawTokens == 1 .. (issuedRaw + 1)

Login == \E e \in Emails, pw \in Passwords : login(e, pw, NULL)
Refresh == \E raw \in RawTokens : refresh(raw)
Logout == \E tok \in issuedAccess : logout(tok)
GetMe == \E tok \in issuedAccess : get_me(tok)

RefreshStoreFails == \E raw \in RawTokens : refresh_store_fails(raw)

NextAuth == Login \/ Refresh \/ Logout \/ GetMe \/ Tick

SpecAuth == Init /\ [][NextAuth]_vars

\* the same handlers on a database that can fail a statement
NextAuthFault == NextAuth \/ RefreshStoreFails

SpecAuthFault == Init /\ [][NextAuthFault]_vars

-----------------------------------------------------------------------------
(* /auth/refresh and /auth/logout with their database round trips          *)
(* interleaved.  reqs[i] is request i: its input, the point its handler    *)
(* has reached (pc), the rows its session holds, and its response.         *)

NewReq(kind, arg) ==
    [kind |-> kind, arg |-> arg, pc |-> "start", stored |-> NULL, snap |-> NULL,
     rows |-> {}, status |-> 0, detail |-> "", new_raw |-> NULL,
     base |-> issuedRaw]

Finish(i, status, detail) ==
    [reqs EXCEPT ![i].pc = "done", ![i].status = status, ![i].detail = detail]

StartRefresh ==
    /\ Len(reqs) < MaxReqs
    /\ \E raw \in RawTokens : reqs' = Append(reqs, NewReq("refresh", raw))
    /\ resp' = NoResp
    /\ UNCHANGED <<authVars, consumed, api_keys, domainVars, now>>

StartLogout ==
    /\ Len(reqs) < MaxReqs
    /\ \E tok \in issuedAccess : reqs' = Append(reqs, NewReq("logout", tok))
    /\ resp' = NoResp
    /\ UNCHANGED <<authVars, consumed, api_keys, domainVars, now>>

\* refresh: select(RefreshToken) by hash, then the expiry test on the row read
RefreshLookup(i) ==
    /\ reqs[i].kind = "refresh" /\ reqs[i].pc = "start"
    /\ reqs' =
          IF StoredRefresh(reqs[i].arg) = {}
          THEN Finish(i, 401, "Invalid refresh token")
          ELSE LET stored == CHOOSE r \in StoredRefresh(reqs[i].arg) : TRUE IN
               [reqs EXCEPT ![i].stored = stored,
                            ![i].pc = IF stored.expires_at < now
                                      THEN "expired" ELSE "get_parent"]
    /\ resp' = NoResp
    /\ UNCHANGED <<authVars, consumed, api_keys, domainVars, now>>

\* refresh: db.delete(stored); db.commit() of an expired row.  A DELETE that
\* matches no row any more only warns (the mapper has no version column).
RefreshExpiredDelete(i) ==
    /\ reqs[i].kind = "refresh" /\ reqs[i].pc = "expired"
    /\ refresh_tokens' = RotateDelete(reqs[i].stored)
    /\ reqs' = Finish(i, 401, "Refresh token expired")
    /\ resp' = NoResp
    /\ UNCHANGED <<parents, issuedAccess, issuedRaw, consumed, api_keys,
                   domainVars, now>>

\* refresh: db.get(Parent, stored.parent_id)
RefreshGetParent(i) ==
    /\ reqs[i].kind = "refresh" /\ reqs[i].pc = "get_parent"
    /\ LET p == reqs[i].stored.parent_id IN
       reqs' = IF p \notin DOMAIN parents \/ ~parents[p].is_active
               THEN Finish(i, 401, "User inactive")
               ELSE [reqs EXCEPT ![i].snap = parents[p], ![i].pc = "rotate"]
    /\ resp' = NoResp
    /\ UNCHANGED <<authVars, consumed, api_keys, domainVars, now>>

\* refresh: db.delete(stored); db.commit()
RefreshRotate(i) ==
    /\ reqs[i].kind = "refresh" /\ reqs[i].pc = "rotate"
    /\ refresh_tokens' = RotateDelete(reqs[i].stored)
    /\ reqs' = [reqs EXCEPT ![i].pc = "issue"]
    /\ resp' = NoResp
    /\ UNCHANGED <<parents, issuedAccess, issuedRaw, consumed, api_keys,
                   domainVars, now>>

\* refresh: create_token_pair(db, parent) on the parent read before
RefreshIssue(i) ==
    /\ reqs[i].kind = "refresh" /\ reqs[i].pc = "issue"
    /\ issuedRaw < MaxTokens
    /\ IssuePair(reqs[i].stored.parent_id, reqs[i].snap)
    /\ consumed' = consumed \cup {reqs[i].arg}
    /\ reqs' = [Finish(i, 200, "ok") EXCEPT ![i].new_raw = create_refresh_token_raw]
    /\ resp' = NoResp
    /\ UNCHANGED <<parents, api_keys, domainVars, now>>

\* logout: the get_current_parent dependency, in the request's session
LogoutGuard(i) ==
    /\ reqs[i].kind = "logout" /\ reqs[i].pc = "start"
    /\ LET g == get_current_parent(reqs[i].arg) IN
       reqs' = IF g[1] # 200
               THEN Finish(i, g[1], g[2])
               ELSE [reqs EXCEPT ![i].snap = parents[g[3]], ![i].pc = "select"]
    /\ resp' = NoResp
    /\ UNCHANGED <<authVars, consumed, api_keys, domainVars, now>>

\* the sessions that hold the row lock of parent pid: their UPDATE is flushed
\* and not committed
HoldsParentLock(pid) ==
    {j \in DOMAIN reqs : /\ reqs[j].kind = "logout"
                         /\ reqs[j].pc = "commit"
                         /\ reqs[j].arg.sub = pid}

\* logout: revoke_all_refresh_tokens' select; the autoflush before it sends
\* UPDATE parents SET token_version = <snapshot + 1>, which waits for the lock
LogoutSelect(i) ==
    /\ reqs[i].kind = "logout" /\ reqs[i].pc = "select"
    /\ HoldsParentLock(reqs[i].arg.sub) = {}
    /\ reqs' = [reqs EXCEPT ![i].rows = RefreshRowsOf(reqs[i].arg.sub),
                            ![i].pc = "commit"]
    /\ resp' = NoResp
    /\ UNCHANGED <<authVars, consumed, api_keys, domainVars, now>>

\* logout: the deletes of the rows selected and the commit in
\* revoke_all_refresh_tokens; the handler's own commit has nothing left to write
LogoutCommit(i) ==
    /\ reqs[i].kind = "logout" /\ reqs[i].pc = "commit"
    /\ reqs[i].snap.token_version <= MaxLogouts
    /\ parents' = [parents EXCEPT ![reqs[i].arg.sub].token_version =
                                     reqs[i].snap.token_version + 1]
    /\ refresh_tokens' = refresh_tokens \ reqs[i].rows
    /\ reqs' = Finish(i, 200, "logged_out")
    /\ resp' = NoResp
    /\ UNCHANGED <<issuedAccess, issuedRaw, consumed, api_keys, domainVars, now>>

RefreshStep ==
    \E i \in DOMAIN reqs :
       \/ RefreshLookup(i)
       \/ RefreshExpiredDelete(i)
       \/ RefreshGetParent(i)
       \/ RefreshRotate(i)
       \/ RefreshIssue(i)

LogoutStep ==
    \E i \in DOMAIN reqs : LogoutGuard(i) \/ LogoutSelect(i) \/ LogoutCommit(i)

NextAuthConc ==
    Login \/ StartRefresh \/ StartLogout \/ RefreshStep \/ LogoutStep \/ TickExpire

SpecAuthConc == Init /\ [][NextAuthConc]_vars

AllDone == \A i \in DOMAIN reqs : reqs[i].pc = "done"

(* C2: of two /auth/refresh requests that present the same refresh token,  *)
(* at most one answers 200 with a new token pair; the other answers 401.   *)
C2_OneRefreshWins ==
    \A i, j \in DOMAIN reqs :
       (/\ i # j
        /\ reqs[i].kind = "refresh" /\ reqs[j].kind = "refresh"
        /\ reqs[i].arg = reqs[j].arg
        /\ reqs[i].pc = "done" /\ reqs[j].pc = "done"
        /\ reqs[i].status = 200)
          => reqs[j].status = 401

\* the raw token a stored row was made from
RawOf(row) == row.token_hash[2]

(* C4: once a logout of parent p and a refresh presenting a token issued   *)
(* to p before that logout began have both completed, no refresh token     *)
(* issued before the logout began, nor the one that refresh minted, is     *)
(* still stored.                                                           *)
C4_LogoutBeatsRefresh ==
    \A i, j \in DOMAIN reqs :
       (/\ reqs[i].kind = "logout" /\ reqs[i].pc = "done" /\ reqs[i].status = 200
        /\ reqs[j].kind = "refresh" /\ reqs[j].pc = "done"
        /\ reqs[j].arg <= reqs[i].base)
          => \A row \in RefreshRowsOf(reqs[i].arg.sub) :
                /\ RawOf(row) > reqs[i].base
                /\ RawOf(row) # reqs[j].new_raw

-----------------------------------------------------------------------------
(* app/routes/parent_routes.py and app/routes/toy_routes.py, one handler   *)
(* per action.  A toy's toy_uuid is modelled by its id.                    *)

\* an id uuid4 has not produced before, in a table that is never deleted from
NewId(table) == Cardinality(DOMAIN table) + 1

Extend(table, id, row) ==
    [k \in DOMAIN table \cup {id} |-> IF k = id THEN row ELSE table[k]]

\* a child lookup without the owner filter
ChildrenOf_Everyone(pid) == DOMAIN children

\* select(Child).where(Child.parent_id == parent.id)
ChildrenOf(pid) == {c \in DOMAIN children : children[c].parent_id = pid}

\* a toy lookup by uuid alone
ToyPairedWith_AnyParent(t, pid) == t \in DOMAIN toys

\* the join Toy.id == Child.toy_id filtered by Child.parent_id
ToyPairedWith(t, pid) ==
    t \in DOMAIN toys /\ \E c \in ChildrenOf(pid) : children[c].toy_id = t

\* the request names a child of another parent, or a toy that a child of
\* another parent is paired with
CrossOwner(pid, c, t) ==
    \/ c \in DOMAIN children /\ children[c].parent_id # pid
    \/ t \in DOMAIN toys /\ \E q \in DOMAIN parents \ {pid} : ToyPairedWith(t, q)

\* the response of a /parent or /toy handler: the principal, the child and toy
\* the request names, and the child the body describes
DResp(op, who, c, t, status, detail, out) ==
    [op |-> op, parent |-> who, child |-> c, toy |-> t, status |-> status,
     detail |-> detail, out |-> out,
     cross |-> who # NULL /\ CrossOwner(who, c, t)]

Denied(op, g) == DResp(op, NULL, NULL, NULL, g[1], g[2], NULL)

\* a limit test that lets one more child in
OverLimit_OffByOne(count) == count > MaxChildrenPerParent

\* the child-limit test of create_child
OverLimit(count) == count >= MaxChildrenPerParent

NewAnalytics ==
    [total_questions |-> 0, weekly_questions |-> 0, last_active_date |-> NULL]

\* a creation that forgets the analytics row
AnalyticsWith_Forgotten(id) == analytics

\* create_child: db.add(ChildAnalytics(child_id=child.id))
AnalyticsWith(id) == Extend(analytics, id, NewAnalytics)

create_child(tok) ==
    LET g == get_current_parent(tok)
        id == NewId(children)
    IN
    /\ IF g[1] # 200
       THEN /\ resp' = Denied("create_child", g)
            /\ UNCHANGED <<children, analytics>>
       ELSE IF OverLimit(Cardinality(ChildrenOf(g[3])))
       THEN /\ resp' = DResp("create_child", g[3], NULL, NULL, 409,
                             "Maximum 3 children allowed per parent", NULL)
            /\ UNCHANGED <<children, analytics>>
       ELSE /\ children' = Extend(children, id, [parent_id |-> g[3], toy_id |-> NULL])
            /\ analytics' = AnalyticsWith(id)
            /\ resp' = DResp("create_child", g[3], NULL, NULL, 200, "ok", id)
    /\ UNCHANGED <<authVars, consumed, api_keys, toys, conversations, messages,
                   now, reqs>>

get_children(tok) ==
    LET g == get_current_parent(tok) IN
    /\ resp' = IF g[1] # 200 THEN Denied("get_children", g)
               ELSE [op |-> "get_children", parent |-> g[3], status |-> 200,
                     list |-> ChildrenOf(g[3]), cross |-> FALSE]
    /\ UNCHANGED <<authVars, consumed, api_keys, domainVars, now, reqs>>

get_child_analytics(tok, c) ==
    LET g == get_current_parent(tok) IN
    /\ resp' =
          IF g[1] # 200 THEN Denied("get_child_analytics", g)
          ELSE IF c \in ChildrenOf(g[3]) /\ c \in DOMAIN analytics
          THEN DResp("get_child_analytics", g[3], c, NULL, 200, "ok", c)
          ELSE DResp("get_child_analytics", g[3], c, NULL, 404,
                     "Analytics not initialized for this child", NULL)
    /\ UNCHANGED <<authVars, consumed, api_keys, domainVars, now, reqs>>

get_active_child(tok, t) ==
    LET g == get_current_parent(tok) IN
    /\ resp' =
          IF g[1] # 200 THEN Denied("get_active_child", g)
          ELSE IF ~ToyPairedWith(t, g[3]) \/ toys[t].active_child_id = NULL
          THEN DResp("get_active_child", g[3], NULL, t, 404,
                     "No active child set", NULL)
          ELSE IF toys[t].active_child_id \notin DOMAIN children
          THEN DResp("get_active_child", g[3], NULL, t, 404,
                     "Active child not found", NULL)
          ELSE DResp("get_active_child", g[3], NULL, t, 200, "ok",
                     toys[t].active_child_id)
    /\ UNCHANGED <<authVars, consumed, api_keys, domainVars, now, reqs>>

\* timedelta(minutes=2), the window of get_toy_status
ONLINE_WINDOW_MINUTES == 2

\* a liveness test that counts the boundary as online
IsOnline_Inclusive(last_seen) ==
    last_seen # NULL /\ now - last_seen <= ONLINE_WINDOW_MINUTES * SecondsPerMinute

\* get_toy_status: is_online
IsOnline(last_seen) ==
    last_seen # NULL /\ now - last_seen < ONLINE_WINDOW_MINUTES * SecondsPerMinute

\* the 200 response of get_toy_status: a DResp with the body's fields
StatusResp(who, t) ==
    [op |-> "get_toy_status", parent |-> who, child |-> NULL, toy |-> t,
     status |-> 200, detail |-> "ok", out |-> NULL,
     cross |-> CrossOwner(who, NULL, t),
     is_active |-> IsOnline(toys[t].last_seen),
     last_seen |-> toys[t].last_seen]

get_toy_status(tok, t) ==
    LET g == get_current_parent(tok) IN
    /\ resp' =
          IF g[1] # 200 THEN Denied("get_toy_status", g)
          ELSE IF ~ToyPairedWith(t, g[3])
          THEN DResp("get_toy_status", g[3], NULL, t, 404, "Toy not found", NULL)
          ELSE StatusResp(g[3], t)
    /\ UNCHANGED <<authVars, consumed, api_keys, domainVars, now, reqs>>

\* a pairing test that never recognises an existing pairing
AlreadyPaired_Never(c, t) == FALSE

\* pair_toy: child.toy_id == toy.id
AlreadyPaired(c, t) == children[c].toy_id = t

pair_toy(tok, t, c) ==
    LET g == get_current_parent(tok) IN
    /\ IF g[1] # 200
       THEN /\ resp' = Denied("pair_toy", g)
            /\ UNCHANGED <<children, toys>>
       ELSE IF c \notin ChildrenOf(g[3])
       THEN /\ resp' = DResp("pair_toy", g[3], c, t, 403,
                             "Child not owned by parent", NULL)
            /\ UNCHANGED <<children, toys>>
       ELSE IF t \notin DOMAIN toys
       THEN /\ resp' = DResp("pair_toy", g[3], c, t, 404, "Toy not found", NULL)
            /\ UNCHANGED <<children, toys>>
       ELSE IF AlreadyPaired(c, t)
       THEN /\ resp' = DResp("pair_toy", g[3], c, t, 200, "already_paired", NULL)
            /\ UNCHANGED <<children, toys>>
       ELSE /\ resp' = DResp("pair_toy", g[3], c, t, 200, "paired", NULL)
            /\ children' = [children EXCEPT ![c].toy_id = t]
            /\ toys' = [toys EXCEPT ![t].is_active = TRUE, ![t].last_seen = now]
    /\ UNCHANGED <<authVars, consumed, api_keys, analytics, conversations,
                   messages, now, reqs>>

set_active_child(tok, t, c) ==
    LET g == get_current_parent(tok) IN
    /\ IF g[1] # 200
       THEN /\ resp' = Denied("set_active_child", g)
            /\ UNCHANGED toys
       ELSE IF c \notin ChildrenOf(g[3])
       THEN /\ resp' = DResp("set_active_child", g[3], c, t, 403,
                             "Child not owned by parent", NULL)
            /\ UNCHANGED toys
       ELSE IF ~ToyPairedWith(t, g[3])
       THEN /\ resp' = DResp("set_active_child", g[3], c, t, 404,
                             "Toy not found or unauthorized", NULL)
            /\ UNCHANGED toys
       ELSE /\ resp' = DResp("set_active_child", g[3], c, t, 200,
                             "active_child_set", NULL)
            /\ toys' = [toys EXCEPT ![t].active_child_id = c]
    /\ UNCHANGED <<authVars, consumed, api_keys, children, analytics,
                   conversations, messages, now, reqs>>

\* the keyed hash of an API key, as hash_refresh_token
hash_api_key(raw) == <<"hmac", raw>>

\* a verification that does not look at the revoked flag
verify_api_key_IgnoresRevoked(key) ==
    IF key = "" THEN <<401, "API key required">>
    ELSE IF {k \in api_keys : k.key = hash_api_key(key)} = {}
         THEN <<403, "Invalid or revoked API key">>
         ELSE <<200, "ok">>

\* verify_api_key: <<status, detail>>; "" is a request without the header
\* (or with an empty one: `if not api_key`)
verify_api_key(key) ==
    IF key = "" THEN <<401, "API key required">>
    ELSE LET found == {k \in api_keys : k.key = hash_api_key(key)} IN
         IF found = {} \/ \E k \in found : k.revoked
         THEN <<403, "Invalid or revoked API key">>
         ELSE <<200, "ok">>

\* the conversations of child c with the latest last_activity
LatestConversations(c) ==
    {v \in DOMAIN conversations :
        /\ conversations[v].child_id = c
        /\ \A w \in DOMAIN conversations :
              conversations[w].child_id = c
                 => conversations[w].last_activity <= conversations[v].last_activity}

\* an update that forgets the weekly counter
CountQuestion_TotalOnly(row) ==
    [row EXCEPT !.total_questions = @ + 1, !.last_active_date = now]

\* analytics.total_questions += 1; analytics.weekly_questions += 1
CountQuestion(row) ==
    [row EXCEPT !.total_questions = @ + 1, !.weekly_questions = @ + 1,
                !.last_active_date = now]

MessagesOf(v, role) ==
    {m \in messages : m.conversation_id = v /\ m.role = role}

AskResp(key, t, status, detail, v) ==
    [op |-> "toy_ask", key |-> key, toy |-> t, status |-> status,
     detail |-> detail, conversation_id |-> v, cross |-> FALSE]

toy_ask(key, t) ==
    LET k == verify_api_key(key) IN
    /\ IF k[1] # 200
       THEN /\ resp' = AskResp(key, t, k[1], k[2], NULL)
            /\ UNCHANGED <<analytics, conversations, messages>>
       ELSE IF t \notin DOMAIN toys \/ ~toys[t].is_active
       THEN /\ resp' = AskResp(key, t, 401, "Invalid or inactive toy", NULL)
            /\ UNCHANGED <<analytics, conversations, messages>>
       ELSE IF toys[t].active_child_id = NULL
       THEN /\ resp' = AskResp(key, t, 409, "No active child set on toy", NULL)
            /\ UNCHANGED <<analytics, conversations, messages>>
       ELSE IF toys[t].active_child_id \notin DOMAIN children
       THEN /\ resp' = AskResp(key, t, 404, "Active child not found", NULL)
            /\ UNCHANGED <<analytics, conversations, messages>>
       ELSE LET c == toys[t].active_child_id
                old == LatestConversations(c)
                v == IF old = {} THEN NewId(conversations)
                     ELSE CHOOSE w \in old : TRUE
                n == Cardinality(messages)
            IN
            /\ Cardinality(messages) < 2 * MaxQuestions
            /\ conversations' =
                  Extend(conversations, v, [child_id |-> c, last_activity |-> now])
            /\ messages' = messages \cup
                  {[id |-> n + 1, conversation_id |-> v, role |-> "user"],
                   [id |-> n + 2, conversation_id |-> v, role |-> "assistant"]}
            /\ analytics' = IF c \in DOMAIN analytics
                            THEN [analytics EXCEPT ![c] = CountQuestion(@)]
                            ELSE analytics
            /\ resp' = AskResp(key, t, 200, "ok", v)
    /\ UNCHANGED <<authVars, consumed, api_keys, children, toys, now, reqs>>

toy_heartbeat(key, t) ==
    LET k == verify_api_key(key) IN
    /\ IF k[1] # 200
       THEN /\ resp' = [op |-> "toy_heartbeat", key |-> key, toy |-> t,
                        status |-> k[1], detail |-> k[2], cross |-> FALSE]
            /\ UNCHANGED toys
       ELSE IF t \notin DOMAIN toys
       THEN /\ resp' = [op |-> "toy_heartbeat", key |-> key, toy |-> t,
                        status |-> 401, detail |-> "Unknown toy", cross |-> FALSE]
            /\ UNCHANGED toys
       ELSE /\ resp' = [op |-> "toy_heartbeat", key |-> key, toy |-> t,
                        status |-> 200, detail |-> "ok", cross |-> FALSE]
            /\ toys' = [toys EXCEPT ![t].is_active = TRUE, ![t].last_seen = now]
    /\ UNCHANGED <<authVars, consumed, api_keys, children, analytics,
                   conversations, messages, now, reqs>>

\* what a client can send: the ids in use and one that names nothing
ChildArgs == 1 .. (Cardinality(DOMAIN children) + 1)
ToyArgs == ToyIds \cup {Cardinality(ToyIds) + 1}
ApiKeyArgs == {"", "k1", "k2", "k3"}

CreateChild == \E tok \in issuedAccess : create_child(tok)
GetChildren == \E tok \in issuedAccess : get_children(tok)
GetChildAnalytics ==
    \E tok \in issuedAccess, c \in ChildArgs : get_child_analytics(tok, c)
GetActiveChild == \E tok \in issuedAccess, t \in ToyArgs : get_active_child(tok, t)
GetToyStatus == \E tok \in issuedAccess, t \in ToyArgs : get_toy_status(tok, t)
PairToy == \E tok \in issuedAccess, t \in ToyArgs, c \in ChildArgs : pair_toy(tok, t, c)
SetActiveChild ==
    \E tok \in issuedAccess, t \in ToyArgs, c \in ChildArgs :
       set_active_child(tok, t, c)
ToyAsk == \E key \in ApiKeyArgs, t \in ToyArgs : toy_ask(key, t)
ToyHeartbeat == \E key \in ApiKeyArgs, t \in ToyArgs : toy_heartbeat(key, t)

\* the database once each parent has logged in (at second 0)
InitLoggedIn ==
    /\ parents = InitParents
    /\ refresh_tokens = {NewRefreshRowAt(p, p, 0) : p \in ParentIds}
    /\ api_keys = InitApiKeys
    /\ children = <<>>
    /\ analytics = <<>>
    /\ toys = InitToys
    /\ conversations = <<>>
    /\ messages = {}
    /\ issuedAccess = {AccessTokenAt(p, InitParents[p], 0) : p \in ParentIds}
    /\ issuedRaw = Cardinality(ParentIds)
    /\ now = 0
    /\ resp = NoResp
    /\ consumed = {}
    /\ reqs = <<>>

\* /parent/children alone: the child limit
NextChild == CreateChild \/ GetChildren \/ GetChildAnalytics

SpecChild == InitLoggedIn /\ [][NextChild]_vars

\* the database once parent 1 has created two children and parent 2 one
FamilyChildren ==
    <<[parent_id |-> 1, toy_id |-> NULL],
      [parent_id |-> 1, toy_id |-> NULL],
      [parent_id |-> 2, toy_id |-> NULL]>>

InitFamily ==
    /\ parents = InitParents
    /\ refresh_tokens = {NewRefreshRowAt(p, p, 0) : p \in ParentIds}
    /\ api_keys = InitApiKeys
    /\ children = FamilyChildren
    /\ analytics = [c \in DOMAIN FamilyChildren |-> NewAnalytics]
    /\ toys = InitToys
    /\ conversations = <<>>
    /\ messages = {}
    /\ issuedAccess = {AccessTokenAt(p, InitParents[p], 0) : p \in ParentIds}
    /\ issuedRaw = Cardinality(ParentIds)
    /\ now = 0
    /\ resp = NoResp
    /\ consumed = {}
    /\ reqs = <<>>

\* the /parent and /toy handlers on those children
NextToy ==
    \/ GetChildAnalytics
    \/ GetActiveChild
    \/ GetToyStatus
    \/ PairToy
    \/ SetActiveChild
    \/ ToyAsk
    \/ ToyHeartbeat

SpecToy == InitFamily /\ [][NextToy]_vars

-----------------------------------------------------------------------------
(* POST /parent/children with its database round trips interleaved *)

StartCreateChild ==
    /\ Len(reqs) < MaxReqs
    /\ \E tok \in issuedAccess : reqs' = Append(reqs, NewReq("create_child", tok))
    /\ resp' = NoResp
    /\ UNCHANGED <<authVars, consumed, api_keys, domainVars, now>>

\* create_child: the get_current_parent dependency
CreateChildGuard(i) ==
    /\ reqs[i].kind = "create_child" /\ reqs[i].pc = "start"
    /\ LET g == get_current_parent(reqs[i].arg) IN
       reqs' = IF g[1] # 200
               THEN Finish(i, g[1], g[2])
               ELSE [reqs EXCEPT ![i].snap = parents[g[3]], ![i].pc = "count"]
    /\ resp' = NoResp
    /\ UNCHANGED <<authVars, consumed, api_keys, domainVars, now>>

\* create_child: select count(Child.id) and the limit test on the count read
CreateChildCount(i) ==
    /\ reqs[i].kind = "create_child" /\ reqs[i].pc = "count"
    /\ reqs' = IF OverLimit(Cardinality(ChildrenOf(reqs[i].arg.sub)))
               THEN Finish(i, 409, "Maximum 3 children allowed per parent")
               ELSE [reqs EXCEPT ![i].pc = "insert"]
    /\ resp' = NoResp
    /\ UNCHANGED <<authVars, consumed, api_keys, domainVars, now>>

\* create_child: the INSERTs of the child and its analytics row, and the commit
CreateChildInsert(i) ==
    /\ reqs[i].kind = "create_child" /\ reqs[i].pc = "insert"
    /\ LET id == NewId(children) IN
       /\ children' = Extend(children, id,
                             [parent_id |-> reqs[i].arg.sub, toy_id |-> NULL])
       /\ analytics' = AnalyticsWith(id)
    /\ reqs' = Finish(i, 200, "ok")
    /\ resp' = NoResp
    /\ UNCHANGED <<authVars, consumed, api_keys, toys, conversations, messages, now>>

CreateChildStep ==
    \E i \in DOMAIN reqs :
       CreateChildGuard(i) \/ CreateChildCount(i) \/ CreateChildInsert(i)

\* requests that run alone (CreateChild) and requests that overlap
NextChildConc == CreateChild \/ StartCreateChild \/ CreateChildStep

SpecChildConc == InitLoggedIn /\ [][NextChildConc]_vars

-----------------------------------------------------------------------------
(* C1: refresh tokens are single-use.  A refresh that succeeds with R      *)
(* leaves no stored row for R; no later step stores a row for a consumed   *)
(* token again; and a refresh presenting a consumed token answers 401 and  *)
(* issues no token pair.                                                   *)
C1_RefreshSingleUse ==
    [][/\ \A R \in consumed' : StoredRefresh(R)' = {}
       /\ (resp'.op = "refresh" /\ resp'.raw \in consumed)
             => /\ resp'.status = 401
                /\ issuedAccess' = issuedAccess
                /\ issuedRaw' = issuedRaw
                /\ refresh_tokens' = refresh_tokens]_vars

\* a consumed token was presented again and refused
C1_Witness ==
    /\ resp.op = "refresh"
    /\ resp.raw \in consumed
    /\ resp.status = 401

(* C3: after a successful logout of a parent, every access token issued    *)
(* to that parent so far is refused by get_current_parent with 401, its    *)
(* token_version differing from the stored one, and the parent has no      *)
(* refresh-token row.                                                      *)
C3_LogoutRevokes ==
    (resp.op = "logout" /\ resp.status = 200)
       => /\ \A tok \in issuedAccess :
                tok.sub = resp.parent
                   => /\ get_current_parent(tok)[1] = 401
                      /\ tok.token_version # parents[resp.parent].token_version
          /\ RefreshRowsOf(resp.parent) = {}

\* a logout succeeded while two unexpired access tokens of the parent were out
C3_Witness ==
    /\ resp.op = "logout"
    /\ resp.status = 200
    /\ Cardinality({tok \in issuedAccess :
                       tok.sub = resp.parent /\ tok.exp >= now}) >= 2

\* the handlers C5 names
OwnerScopedOps ==
    {"get_child_analytics", "get_active_child", "get_toy_status", "pair_toy",
     "set_active_child"}

(* C5: ownership isolation.  A request authenticated as parent A that      *)
(* names a child of another parent, or a toy paired with a child of        *)
(* another parent, ends in 403 or 404; and no response to A describes a    *)
(* child that A does not own.                                              *)
C5_OwnershipIsolation ==
    resp.op \in OwnerScopedOps
       => /\ resp.cross => resp.status \in {403, 404}
          /\ (resp.status = 200 /\ resp.out # NULL)
                => children[resp.out].parent_id = resp.parent

(* C6: a toy whose active_child_id is set references a child whose toy_id  *)
(* is that toy's id.                                                       *)
C6_ActiveChildIsPaired ==
    \A t \in DOMAIN toys :
       toys[t].active_child_id # NULL
          => /\ toys[t].active_child_id \in DOMAIN children
             /\ children[toys[t].active_child_id].toy_id = t

(* C7: a parent owns at most 3 children, in every reachable state, also    *)
(* when POST /parent/children requests of one parent overlap.              *)
C7_AtMostThreeChildren ==
    \A p \in DOMAIN parents : Cardinality(ChildrenOf(p)) <= 3

(* C8: POST /parent/children by a parent with fewer than 3 children        *)
(* answers 200 and adds one child of that parent with its analytics row;   *)
(* by a parent with 3 children it answers 409 and leaves the children and  *)
(* the analytics rows as they were.                                        *)
C8_ChildLimit ==
    [][(resp'.op = "create_child" /\ resp'.parent # NULL)
          => IF Cardinality(ChildrenOf(resp'.parent)) < 3
             THEN /\ resp'.status = 200
                  /\ DOMAIN children' = DOMAIN children \cup {resp'.out}
                  /\ resp'.out \notin DOMAIN children
                  /\ children'[resp'.out].parent_id = resp'.parent
                  /\ \A c \in DOMAIN children : children'[c] = children[c]
                  /\ DOMAIN analytics' = DOMAIN analytics \cup {resp'.out}
                  /\ \A c \in DOMAIN analytics : analytics'[c] = analytics[c]
             ELSE /\ resp'.status = 409
                  /\ children' = children
                  /\ analytics' = analytics]_vars

\* a fourth child was refused to a parent who has three
C8_Witness ==
    /\ resp.op = "create_child" /\ resp.status = 409
    /\ Cardinality(ChildrenOf(resp.parent)) = 3

\* a /toy/ask with a valid API key for a toy that exists answered
AskOf(r) == r.op = "toy_ask" /\ verify_api_key(r.key)[1] = 200 /\ r.toy \in DOMAIN toys

(* C9 as stated: /toy/ask (valid API key) for a toy with no active child   *)
(* answers 409.                                                            *)
C9_AskWithoutActiveChildIs409 ==
    (AskOf(resp) /\ toys[resp.toy].active_child_id = NULL) => resp.status = 409

(* C9, amended: /toy/ask with a valid API key for a toy that is active     *)
(* (paired, or seen by a heartbeat) and has no active child answers 409    *)
(* and changes no table; for a toy that is not active it answers 401 and   *)
(* changes no table.  Once /toy/set-active-child has succeeded for the     *)
(* toy, the ask answers 200, the active child's total_questions and        *)
(* weekly_questions each grow by exactly 1, and the conversation returned  *)
(* gains exactly one user and one assistant message.                       *)
C9_AskCountsOneQuestion ==
    [][AskOf(resp')
          => LET t == resp'.toy
                 c == toys[t].active_child_id
                 v == resp'.conversation_id
             IN
             /\ (resp.op = "set_active_child" /\ resp.status = 200 /\ resp.toy = t)
                   => resp'.status = 200
             /\ ~toys[t].is_active
                   => /\ resp'.status = 401
                      /\ UNCHANGED <<domainVars, authVars, api_keys>>
             /\ (toys[t].is_active /\ c = NULL)
                   => /\ resp'.status = 409
                      /\ UNCHANGED <<domainVars, authVars, api_keys>>
             /\ (toys[t].is_active /\ c # NULL)
                   => /\ resp'.status = 200
                      /\ analytics'[c].total_questions
                            = analytics[c].total_questions + 1
                      /\ analytics'[c].weekly_questions
                            = analytics[c].weekly_questions + 1
                      /\ \A d \in DOMAIN analytics \ {c} : analytics'[d] = analytics[d]
                      /\ conversations'[v].child_id = c
                      /\ \A role \in {"user", "assistant"} :
                            Cardinality({m \in messages' :
                                m.conversation_id = v /\ m.role = role})
                               = Cardinality(MessagesOf(v, role)) + 1
                      /\ Cardinality(messages') = Cardinality(messages) + 2
                      /\ UNCHANGED <<children, toys>>]_vars

\* a second question was counted for a child, in the conversation of the first
C9_Witness ==
    /\ resp.op = "toy_ask" /\ resp.status = 200
    /\ toys[resp.toy].active_child_id # NULL
    /\ analytics[toys[resp.toy].active_child_id].total_questions = 2
    /\ Cardinality(MessagesOf(resp.conversation_id, "user")) = 2

(* C10: a request that fails leaves no change behind: after an             *)
(* /auth/refresh that failed while persisting the replacement pair, the    *)
(* row of the refresh token presented is still stored.                     *)
C10_FailedRefreshRollsBack ==
    (resp.op = "refresh" /\ resp.status = 500) => StoredRefresh(resp.raw) # {}

-----------------------------------------------------------------------------
(* get_current_parent on every bearer token and every state of the parent  *)
(* rows                                                                    *)

\* the versions a parent row or a token can carry
TokenVersions == 1 .. MaxLogouts

\* the parents table with each account active or not, at each version
GuardParents ==
    {[p \in ParentIds |-> [InitParents[p] EXCEPT !.is_active = act[p],
                                                 !.token_version = ver[p]]] :
        act \in [ParentIds -> BOOLEAN], ver \in [ParentIds -> TokenVersions]}

InitGuard ==
    /\ parents \in GuardParents
    /\ refresh_tokens = {}
    /\ api_keys = InitApiKeys
    /\ children = <<>>
    /\ analytics = <<>>
    /\ toys = InitToys
    /\ conversations = <<>>
    /\ messages = {}
    /\ issuedAccess = {}
    /\ issuedRaw = 0
    /\ now = 0
    /\ resp = NoResp
    /\ consumed = {}
    /\ reqs = <<>>

\* what a client can put in the Authorization header: a payload signed with
\* the server's key or with another key, for a parent, for an id that names
\* no parent, or with no subject
BearerTokens ==
    [sub : ParentIds \cup {NULL, Cardinality(ParentIds) + 1},
     role : {"parent"},
     token_version : TokenVersions,
     exp : {AccessLifetime},
     sig : {SECRET_KEY, "forged"}]

PresentBearer == \E tok \in BearerTokens : get_me(tok)

\* the access tokens of second 0 expire
TickAccess == TickTo({AccessLifetime, AccessLifetime + 1})

NextGuard == PresentBearer \/ TickAccess

SpecGuard == InitGuard /\ [][NextGuard]_vars

\* the conditions C11 lists
Resolves(tok) ==
    /\ tok.sig = SECRET_KEY
    /\ tok.exp >= now
    /\ tok.sub \in DOMAIN parents
    /\ parents[tok.sub].is_active
    /\ parents[tok.sub].token_version = tok.token_version

(* C11: get_current_parent resolves a bearer token to a Parent only if the *)
(* signature is valid, the token is unexpired, the subject names an        *)
(* existing active Parent and the token_version matches; in every other    *)
(* case the request fails with 401 and the handler does not run.           *)
C11_GuardFailsClosed ==
    resp.op = "me"
       => IF Resolves(resp.token)
          THEN resp.status = 200 /\ resp.parent = resp.token.sub
          ELSE resp.status = 401

-----------------------------------------------------------------------------
(* POST /auth/signup, and /auth/login on the accounts it creates *)

PASSWORD_MIN_CHARS == 10

SignupResp(email, password, status, detail, id) ==
    [op |-> "signup", email |-> email, password |-> password,
     status |-> status, detail |-> detail, id |-> id]

NewParent(email, password) ==
    [email |-> email, password_hash |-> hash_password(password),
     role |-> "parent", token_version |-> 1, is_active |-> TRUE]

\* the two length tests of signup: <<status, detail>>
PasswordPolicy(password) ==
    IF password.bytes < PASSWORD_MIN_CHARS
    THEN <<400, "Password must be at least 10 characters">>
    ELSE IF password.bytes > BCRYPT_MAX_BYTES
    THEN <<400, "Password too long (max 72 characters allowed)">>
    ELSE <<200, "ok">>

signup(email, password) ==
    /\ IF PasswordPolicy(password)[1] # 200
       THEN /\ resp' = SignupResp(email, password, PasswordPolicy(password)[1],
                                  PasswordPolicy(password)[2], NULL)
            /\ UNCHANGED parents
       ELSE IF ParentByEmail(email) # {}
       THEN /\ resp' = SignupResp(email, password, 400, "Email already exists", NULL)
            /\ UNCHANGED parents
       ELSE /\ parents' = Extend(parents, NewId(parents), NewParent(email, password))
            /\ resp' = SignupResp(email, password, 201, "created", NewId(parents))
    /\ UNCHANGED <<refresh_tokens, issuedAccess, issuedRaw, consumed, api_keys,
                   domainVars, now, reqs>>

\* passwords a client can send: too short, of ordinary length, of exactly 72
\* bytes, and that one with a 73rd byte appended
PasswordArgs ==
    {Pw("short", 9), Pw("pw-a", 10), Pw("pw-b", 10),
     Pw("pw-max", BCRYPT_MAX_BYTES), Pw("pw-max", BCRYPT_MAX_BYTES + 1)}

\* User-Agent headers a client can send: none, a short one, a long one
UserAgents == {NULL, 120, 300}

SignupEmails == {"a@x", "b@x"}

Signup == \E e \in SignupEmails, pw \in PasswordArgs : signup(e, pw)
LoginAny ==
    \E e \in SignupEmails, pw \in PasswordArgs, ua \in UserAgents : login(e, pw, ua)

InitSignup ==
    /\ parents = <<>>
    /\ refresh_tokens = {}
    /\ api_keys = InitApiKeys
    /\ children = <<>>
    /\ analytics = <<>>
    /\ toys = InitToys
    /\ conversations = <<>>
    /\ messages = {}
    /\ issuedAccess = {}
    /\ issuedRaw = 0
    /\ now = 0
    /\ resp = NoResp
    /\ consumed = {}
    /\ reqs = <<>>

NextSignup == Signup \/ LoginAny

SpecSignup == InitSignup /\ [][NextSignup]_vars

\* the account of email e was created by a signup with password pw (signup
\* is the only writer of password_hash, and accepts at most 72 bytes)
SignedUpWith(e, pw) ==
    /\ PasswordPolicy(pw)[1] = 200
    /\ \E p \in ParentByEmail(e) : parents[p].password_hash = hash_password(pw)

(* C12: after a signup that succeeded with (e, p), every /auth/login with  *)
(* (e, p) on the active account answers 200 with an access and a refresh   *)
(* token and stores one new refresh-token row; every /auth/login with e    *)
(* and a password other than p answers 401 and stores no refresh token.    *)
C12_LoginAfterSignup ==
    [][\A pw \in PasswordArgs :
          (resp'.op = "login" /\ SignedUpWith(resp'.email, pw))
             => IF resp'.password = pw
                THEN /\ resp'.status = 200
                     /\ resp'.access_token \in issuedAccess'
                     /\ refresh_tokens' = refresh_tokens
                           \cup {r \in refresh_tokens' :
                                   r.token_hash
                                      = hash_refresh_token(resp'.refresh_token)}
                     /\ Cardinality(refresh_tokens')
                           = Cardinality(refresh_tokens) + 1
                ELSE /\ resp'.status = 401
                     /\ refresh_tokens' = refresh_tokens]_vars

-----------------------------------------------------------------------------
(* /toy/pair, /toy/set-active-child and /toy/heartbeat as time passes *)

\* the first minutes after the logins of second 0
TickMinute == TickTo({SecondsPerMinute, 2 * SecondsPerMinute})

NextPair == PairToy \/ SetActiveChild \/ ToyHeartbeat \/ TickMinute

SpecPair == InitFamily /\ [][NextPair]_vars

(* C13: /toy/pair called again by the owning parent with a (toy, child)    *)
(* that is already paired answers 200 'already_paired' and leaves          *)
(* child.toy_id, toy.is_active, toy.last_seen and toy.active_child_id (and *)
(* every other row) as the first call left them.                           *)
C13_PairIdempotent ==
    [][(/\ resp'.op = "pair_toy"
        /\ resp'.parent # NULL
        /\ resp'.child \in ChildrenOf(resp'.parent)
        /\ resp'.toy \in DOMAIN toys
        /\ children[resp'.child].toy_id = resp'.toy)
          => /\ resp'.status = 200
             /\ resp'.detail = "already_paired"
             /\ UNCHANGED <<children, toys, analytics>>]_vars

\* a second pairing call, made later than the first, in a state
\* where the toy has an active child
C13_Witness ==
    /\ resp.op = "pair_toy" /\ resp.detail = "already_paired"
    /\ toys[resp.toy].last_seen < now
    /\ toys[resp.toy].active_child_id # NULL

-----------------------------------------------------------------------------
(* POST /parent/children on a database that can fail a statement *)

\* create_child when a statement after the child's flush raises: an
\* IntegrityError is rolled back and answered 409, any other error closes the
\* session without a commit and is answered 500.  The flushed child row was
\* never committed.
create_child_fails(tok) ==
    LET g == get_current_parent(tok) IN
    /\ g[1] = 200
    /\ ~OverLimit(Cardinality(ChildrenOf(g[3])))
    /\ \E failure \in {<<409, "Child creation conflict">>,
                       <<500, "Internal Server Error">>} :
          resp' = DResp("create_child", g[3], NULL, NULL, failure[1], failure[2],
                        NULL)
    /\ UNCHANGED <<authVars, consumed, api_keys, domainVars, now, reqs>>

CreateChildFails == \E tok \in issuedAccess : create_child_fails(tok)

NextChildFault == NextChild \/ CreateChildFails

SpecChildFault == InitLoggedIn /\ [][NextChildFault]_vars

(* C14: in every committed state each Child has exactly one ChildAnalytics *)
(* row (child_id is unique in the table) and every analytics row belongs   *)
(* to a Child: the row is committed with the Child and never deleted.      *)
C14_OneAnalyticsPerChild == DOMAIN analytics = DOMAIN children

\* a creation failed after its flush, next to children created before
C14_Witness ==
    /\ resp.op = "create_child" /\ resp.detail = "Child creation conflict"
    /\ Cardinality(ChildrenOf(resp.parent)) = 2

-----------------------------------------------------------------------------
(* /auth/refresh for accounts that were deactivated after their login *)

InitRefresh ==
    /\ parents \in GuardParents
    /\ refresh_tokens = {NewRefreshRowAt(p, p, 0) : p \in ParentIds}
    /\ api_keys = InitApiKeys
    /\ children = <<>>
    /\ analytics = <<>>
    /\ toys = InitToys
    /\ conversations = <<>>
    /\ messages = {}
    /\ issuedAccess = {}
    /\ issuedRaw = Cardinality(ParentIds)
    /\ now = 0
    /\ resp = NoResp
    /\ consumed = {}
    /\ reqs = <<>>

NextRefresh == Login \/ Refresh \/ Tick

SpecRefresh == InitRefresh /\ [][NextRefresh]_vars

(* C15: /auth/refresh with an unknown token answers 401 and changes        *)
(* nothing; with a stored, expired token it deletes the row, answers 401   *)
(* and issues nothing; with a stored, unexpired token of a missing or      *)
(* inactive parent it answers 401, issues nothing and keeps the row; only  *)
(* otherwise it deletes the row and issues and stores a new pair.          *)
C15_RefreshCheckOrder ==
    [][resp'.op = "refresh"
          => IF StoredRefresh(resp'.raw) = {}
             THEN resp'.status = 401 /\ UNCHANGED authVars
             ELSE \A stored \in StoredRefresh(resp'.raw) :
                IF stored.expires_at < now
                THEN /\ resp'.status = 401
                     /\ refresh_tokens' = refresh_tokens \ {stored}
                     /\ UNCHANGED <<parents, issuedAccess, issuedRaw>>
                ELSE IF \/ stored.parent_id \notin DOMAIN parents
                        \/ ~parents[stored.parent_id].is_active
                THEN resp'.status = 401 /\ UNCHANGED authVars
                ELSE /\ resp'.status = 200
                     /\ stored \notin refresh_tokens'
                     /\ resp'.access_token \in issuedAccess'
                     /\ resp'.refresh_token = issuedRaw'
                     /\ issuedRaw' > issuedRaw
                     /\ refresh_tokens' =
                           (refresh_tokens \ {stored})
                              \cup {NewRefreshRow(stored.parent_id,
                                                  resp'.refresh_token)}
                     /\ UNCHANGED parents]_vars

\* an unexpired token of a deactivated account was refused and its row kept
C15_Witness ==
    /\ resp.op = "refresh" /\ resp.status = 401 /\ resp.detail = "User inactive"
    /\ StoredRefresh(resp.raw) # {}
    /\ now > 0

(* C16: /toy/set-active-child changes toy.active_child_id only when the    *)
(* named child is owned by the requesting parent and the named toy is      *)
(* paired with at least one child of that parent; for a child not owned    *)
(* it answers 403, for a toy unknown or paired with none of the parent's   *)
(* children it answers 404, and then no toy's active_child_id changes.     *)
C16_SetActiveChildGuards ==
    [][/\ (resp'.op = "set_active_child" /\ resp'.parent # NULL)
          => IF resp'.child \notin ChildrenOf(resp'.parent)
             THEN resp'.status = 403 /\ toys' = toys
             ELSE IF \A c \in ChildrenOf(resp'.parent) :
                        children[c].toy_id # resp'.toy
             THEN resp'.status = 404 /\ toys' = toys
             ELSE /\ resp'.status = 200
                  /\ toys' = [toys EXCEPT
                                ![resp'.toy].active_child_id = resp'.child]
       /\ (\E t \in DOMAIN toys :
              toys'[t].active_child_id # toys[t].active_child_id)
          => resp'.op = "set_active_child" /\ resp'.status = 200]_vars

\* a parent named its own child and a toy that is paired, with another
\* parent's child only, and that has an active child
C16_Witness ==
    /\ resp.op = "set_active_child" /\ resp.status = 404
    /\ resp.child \in ChildrenOf(resp.parent)
    /\ resp.toy \in DOMAIN toys
    /\ \E c \in DOMAIN children : children[c].toy_id = resp.toy
    /\ toys[resp.toy].active_child_id # NULL

\* the requests behind verify_api_key
MachineOps == {"toy_ask", "toy_heartbeat"}

(* C17: verify_api_key fails when no key is presented, when the key's      *)
(* keyed hash matches no stored row and when the matching row is revoked,  *)
(* and resolves a principal for a stored, non-revoked key only; /toy/ask   *)
(* and /toy/heartbeat change no state without such a key.                  *)
C17_ApiKeyRequired ==
    [][resp'.op \in MachineOps
          => IF /\ resp'.key # ""
                /\ \E k \in api_keys :
                      k.key = hash_api_key(resp'.key) /\ ~k.revoked
             THEN resp'.detail \notin {"API key required",
                                       "Invalid or revoked API key"}
             ELSE /\ resp'.status = IF resp'.key = "" THEN 401 ELSE 403
                  /\ UNCHANGED <<domainVars, authVars, api_keys>>]_vars

\* a heartbeat with the revoked key was refused for a toy that is in use
C17_Witness ==
    /\ resp.op = "toy_heartbeat" /\ resp.status = 403
    /\ \E k \in api_keys : k.key = hash_api_key(resp.key) /\ k.revoked
    /\ resp.toy \in DOMAIN toys
    /\ toys[resp.toy].active_child_id # NULL

-----------------------------------------------------------------------------
(* POST /auth/signup with its database round trips interleaved *)

StartSignup ==
    /\ Len(reqs) < MaxReqs
    /\ \E e \in SignupEmails, pw \in PasswordArgs :
          reqs' = Append(reqs, NewReq("signup", [email |-> e, password |-> pw]))
    /\ resp' = NoResp
    /\ UNCHANGED <<authVars, consumed, api_keys, domainVars, now>>

\* signup: the length tests and select(Parent).where(Parent.email == data.email)
SignupCheck(i) ==
    /\ reqs[i].kind = "signup" /\ reqs[i].pc = "start"
    /\ reqs' =
          IF PasswordPolicy(reqs[i].arg.password)[1] # 200
          THEN Finish(i, PasswordPolicy(reqs[i].arg.password)[1],
                      PasswordPolicy(reqs[i].arg.password)[2])
          ELSE IF ParentByEmail(reqs[i].arg.email) # {}
          THEN Finish(i, 400, "Email already exists")
          ELSE [reqs EXCEPT ![i].pc = "insert"]
    /\ resp' = NoResp
    /\ UNCHANGED <<authVars, consumed, api_keys, domainVars, now>>

\* signup: db.add(parent); db.commit().  parents.email is unique: the INSERT of
\* an email committed since the select raises IntegrityError, which signup does
\* not catch, and the request ends in 500.
SignupInsert(i) ==
    /\ reqs[i].kind = "signup" /\ reqs[i].pc = "insert"
    /\ IF ParentByEmail(reqs[i].arg.email) # {}
       THEN /\ reqs' = Finish(i, 500, "Internal Server Error")
            /\ UNCHANGED parents
       ELSE /\ parents' = Extend(parents, NewId(parents),
                                 NewParent(reqs[i].arg.email, reqs[i].arg.password))
            /\ reqs' = Finish(i, 201, "created")
    /\ resp' = NoResp
    /\ UNCHANGED <<refresh_tokens, issuedAccess, issuedRaw, consumed, api_keys,
                   domainVars, now>>

SignupStep == \E i \in DOMAIN reqs : SignupCheck(i) \/ SignupInsert(i)

\* signups that run alone (Signup) and signups that overlap
NextSignupConc == Signup \/ StartSignup \/ SignupStep

SpecSignupConc == InitSignup /\ [][NextSignupConc]_vars

(* C18: no two Parents share an email, and a /auth/signup with an email    *)
(* that belongs to a Parent fails with 400 and creates no Parent, also     *)
(* when two signups with the same email overlap: every signup ends in 201  *)
(* or in a 400, never in an unhandled storage error.                       *)
C18_DuplicateSignupIs400 ==
    /\ \A p, q \in DOMAIN parents :
          parents[p].email = parents[q].email => p = q
    /\ (resp.op = "signup" /\ resp.status # 201) => resp.status = 400
    /\ \A i \in DOMAIN reqs :
          (reqs[i].kind = "signup" /\ reqs[i].pc = "done")
             => reqs[i].status \in {201, 400}

-----------------------------------------------------------------------------
(* the admin capability: POST /auth/apikey/create and GET /admin/... *)

MaxApiKeys == 2

\* the parents table with each account a parent or an admin
AdminParents ==
    {[p \in ParentIds |-> [InitParents[p] EXCEPT !.role = role[p]]] :
        role \in [ParentIds -> {"parent", "admin"}]}

\* each account has logged in at second 0
InitAdmin ==
    /\ parents \in AdminParents
    /\ refresh_tokens = {NewRefreshRowAt(p, p, 0) : p \in ParentIds}
    /\ api_keys = InitApiKeys
    /\ children = <<>>
    /\ analytics = <<>>
    /\ toys = InitToys
    /\ conversations = <<>>
    /\ messages = {}
    /\ issuedAccess = {AccessTokenAt(p, parents[p], 0) : p \in ParentIds}
    /\ issuedRaw = Cardinality(ParentIds)
    /\ now = 0
    /\ resp = NoResp
    /\ consumed = {}
    /\ reqs = <<>>

\* a role test that lets every parent through
IsAdmin_Anyone(prow) == TRUE

\* current_parent.role != "admin", on the row get_current_parent loaded
IsAdmin(prow) == prow.role = "admin"

\* the response of an admin-only handler; served: the body carries the
\* handler's data (the raw key, or the message rows)
AdminResp(op, who, status, detail, served) ==
    [op |-> op, parent |-> who, status |-> status, detail |-> detail,
     served |-> served, cross |-> FALSE]

\* secrets.token_urlsafe(48): a key never generated before
NewApiKeyRaw == IF Cardinality(api_keys) = Cardinality(InitApiKeys) THEN "g1" ELSE "g2"

create_api_key(tok) ==
    LET g == get_current_parent(tok) IN
    /\ IF g[1] # 200
       THEN /\ resp' = AdminResp("create_api_key", NULL, g[1], g[2], FALSE)
            /\ UNCHANGED api_keys
       ELSE IF ~IsAdmin(parents[g[3]])
       THEN /\ resp' = AdminResp("create_api_key", g[3], 403, "Admin only", FALSE)
            /\ UNCHANGED api_keys
       ELSE /\ Cardinality(api_keys) < Cardinality(InitApiKeys) + MaxApiKeys
            /\ api_keys' = api_keys \cup
                  {[key |-> hash_api_key(NewApiKeyRaw), revoked |-> FALSE]}
            /\ resp' = AdminResp("create_api_key", g[3], 200, NewApiKeyRaw, TRUE)
    /\ UNCHANGED <<authVars, consumed, domainVars, now, reqs>>

\* require_admin
require_admin(tok) ==
    LET g == get_current_parent(tok) IN
    IF g[1] # 200 THEN <<g[1], g[2], NULL>>
    ELSE IF ~IsAdmin(parents[g[3]]) THEN <<403, "Admin access only", g[3]>>
    ELSE <<200, "ok", g[3]>>

\* GET /admin/messages, /admin/child/{id}/messages, /admin/toy/{uuid}/messages:
\* reads behind require_admin
admin_messages(tok) ==
    LET a == require_admin(tok) IN
    /\ resp' = AdminResp("admin_messages", a[3], a[1], a[2], a[1] = 200)
    /\ UNCHANGED <<authVars, consumed, api_keys, domainVars, now, reqs>>

CreateApiKey == \E tok \in issuedAccess : create_api_key(tok)
AdminMessages == \E tok \in issuedAccess : admin_messages(tok)

NextAdmin == CreateApiKey \/ AdminMessages \/ Login \/ TickAccess

SpecAdmin == InitAdmin /\ [][NextAdmin]_vars

AdminOps == {"create_api_key", "admin_messages"}

(* C19: /auth/apikey/create and the /admin endpoints called by a parent    *)
(* whose role is not 'admin' answer 403, create no APIKey row and return   *)
(* no data; an APIKey row is created only by a parent with role 'admin'.   *)
C19_AdminOnly ==
    [][/\ (resp'.op \in AdminOps /\ resp'.parent # NULL)
          => IF parents[resp'.parent].role # "admin"
             THEN /\ resp'.status = 403
                  /\ ~resp'.served
                  /\ api_keys' = api_keys
             ELSE /\ resp'.status = 200
                  /\ resp'.served
       /\ api_keys' # api_keys
          => /\ resp'.op = "create_api_key"
             /\ resp'.parent # NULL
             /\ parents[resp'.parent].role = "admin"
             /\ Cardinality(api_keys') = Cardinality(api_keys) + 1
             /\ api_keys \subseteq api_keys']_vars

\* a parent was refused a key after an admin had created one
C19_Witness ==
    /\ resp.op = "create_api_key" /\ resp.status = 403
    /\ Cardinality(api_keys) > Cardinality(InitApiKeys)

-----------------------------------------------------------------------------
(* the parent-scoped lookups, asked for entities of other parents and for  *)
(* entities that do not exist                                              *)

\* the children with a row in weekly_summaries (the table is filled outside
\* the request handlers)
WeeklySummaries == {1, 3}

get_weekly_summary(tok, c) ==
    LET g == get_current_parent(tok) IN
    /\ resp' =
          IF g[1] # 200 THEN Denied("get_weekly_summary", g)
          ELSE IF c \in ChildrenOf(g[3]) /\ c \in WeeklySummaries
          THEN DResp("get_weekly_summary", g[3], c, NULL, 200, "ok", c)
          ELSE DResp("get_weekly_summary", g[3], c, NULL, 404,
                     "Weekly summary not found", NULL)
    /\ UNCHANGED <<authVars, consumed, api_keys, domainVars, now, reqs>>

GetWeeklySummary ==
    \E tok \in issuedAccess, c \in ChildArgs : get_weekly_summary(tok, c)

NextLookup ==
    \/ GetChildAnalytics \/ GetWeeklySummary \/ GetActiveChild \/ GetToyStatus
    \/ PairToy \/ SetActiveChild

SpecLookup == InitFamily /\ [][NextLookup]_vars

\* the lookups by child id, and the lookups by toy uuid
ChildLookups ==
    {"get_child_analytics", "get_weekly_summary", "pair_toy", "set_active_child"}
ToyLookups == {"get_active_child", "get_toy_status"}

\* the request behind response r named an entity that does not exist
NamesNothing(r) ==
    \/ r.op \in ChildLookups /\ r.child \notin DOMAIN children
    \/ r.op \in ToyLookups /\ r.toy \notin DOMAIN toys

\* the request behind response r named an entity of another parent: a child
\* of another parent, or a toy paired with children of other parents only
NamesForeign(r) ==
    \/ /\ r.op \in ChildLookups
       /\ r.child \in DOMAIN children
       /\ children[r.child].parent_id # r.parent
    \/ /\ r.op \in ToyLookups
       /\ r.toy \in DOMAIN toys
       /\ \E c \in DOMAIN children : children[c].toy_id = r.toy
       /\ \A c \in DOMAIN children :
             children[c].toy_id = r.toy => children[c].parent_id # r.parent

(* C20: existence is not leaked.  When a parent asks one of the            *)
(* parent-scoped lookups first for an entity that does not exist and then, *)
(* on the same database, for an entity of another parent, the two          *)
(* responses have the same status and the same message.                    *)
C20_ExistenceNotLeaked ==
    [][(/\ resp.op \in ChildLookups \cup ToyLookups
        /\ resp'.op = resp.op
        /\ resp.parent # NULL
        /\ resp'.parent = resp.parent
        /\ NamesNothing(resp)
        /\ NamesForeign(resp'))
          => /\ resp'.status = resp.status
             /\ resp'.detail = resp.detail
             /\ resp'.out = resp.out
             /\ resp'.status \in {403, 404}]_vars

\* a parent asked for the active child of a toy that another parent uses
C20_Witness ==
    /\ resp.op = "get_active_child" /\ resp.parent # NULL
    /\ NamesForeign(resp)
    /\ toys[resp.toy].active_child_id # NULL
    /\ resp.status = 404

-----------------------------------------------------------------------------
(* GET /parent/toy/{uuid}/status around the two-minute boundary *)

\* seconds at which requests arrive: a heartbeat at 0 or 1, and a status
\* query 1 min 59 s, 2 min and 2 min 1 s after it
StatusInstants == {1, 119, 120, 121, 122}

TickStatus == TickTo(StatusInstants)

NextStatus == PairToy \/ ToyHeartbeat \/ GetToyStatus \/ TickStatus

SpecStatus == InitFamily /\ [][NextStatus]_vars

(* C21: /parent/toy/{uuid}/status reports online exactly when the toy has  *)
(* a last_seen and now - last_seen is strictly less than 2 minutes (online *)
(* at 1 min 59 s, offline at exactly 2 min and at 2 min 1 s), offline for  *)
(* a toy with no last_seen, and the query changes no stored field.         *)
C21_OnlineWithinTwoMinutes ==
    [][(resp'.op = "get_toy_status" /\ resp'.status = 200)
          => LET seen == toys[resp'.toy].last_seen IN
             /\ resp'.is_active = (seen # NULL /\ now - seen < 120)
             /\ (seen # NULL /\ now - seen = 119) => resp'.is_active
             /\ (seen # NULL /\ now - seen \in {120, 121}) => ~resp'.is_active
             /\ seen = NULL => ~resp'.is_active
             /\ UNCHANGED <<domainVars, authVars, api_keys, now>>]_vars

\* a status query exactly two minutes after the toy was last seen
C21_Witness ==
    /\ resp.op = "get_toy_status" /\ resp.status = 200
    /\ resp.last_seen # NULL
    /\ now - resp.last_seen = 120
    /\ ~resp.is_active

-----------------------------------------------------------------------------
(* POST /toy/ask with its database round trips interleaved *)

StartAsk ==
    /\ Len(reqs) < MaxReqs
    /\ \E key \in ApiKeyArgs, t \in ToyArgs :
          reqs' = Append(reqs, NewReq("toy_ask", [key |-> key, toy |-> t]))
    /\ resp' = NoResp
    /\ UNCHANGED <<authVars, consumed, api_keys, domainVars, now>>

\* toy_ask: verify_api_key, the toy and its active child (stored: the child)
AskVerify(i) ==
    /\ reqs[i].kind = "toy_ask" /\ reqs[i].pc = "start"
    /\ LET k == verify_api_key(reqs[i].arg.key)
           t == reqs[i].arg.toy
       IN
       reqs' =
          IF k[1] # 200 THEN Finish(i, k[1], k[2])
          ELSE IF t \notin DOMAIN toys \/ ~toys[t].is_active
          THEN Finish(i, 401, "Invalid or inactive toy")
          ELSE IF toys[t].active_child_id = NULL
          THEN Finish(i, 409, "No active child set on toy")
          ELSE IF toys[t].active_child_id \notin DOMAIN children
          THEN Finish(i, 404, "Active child not found")
          ELSE [reqs EXCEPT ![i].stored = toys[t].active_child_id,
                            ![i].pc = "read"]
    /\ resp' = NoResp
    /\ UNCHANGED <<authVars, consumed, api_keys, domainVars, now>>

\* toy_ask: select(Conversation) ... order_by(last_activity.desc()).first()
\* (rows: the conversation found, none when the request will add its own)
AskConversation(i) ==
    /\ reqs[i].kind = "toy_ask" /\ reqs[i].pc = "read"
    /\ LET old == LatestConversations(reqs[i].stored) IN
       reqs' = [reqs EXCEPT
                   ![i].rows = IF old = {} THEN {}
                               ELSE {CHOOSE w \in old : TRUE},
                   ![i].pc = "count"]
    /\ resp' = NoResp
    /\ UNCHANGED <<authVars, consumed, api_keys, domainVars, now>>

\* a request that has flushed UPDATE conversations SET last_activity for
\* conversation v and has not committed holds the row lock of v
HoldsConversationLock(j, v) ==
    /\ reqs[j].kind = "toy_ask"
    /\ reqs[j].pc = "commit"
    /\ v \in reqs[j].rows

\* toy_ask: select(ChildAnalytics).  The session autoflushes first: the
\* update of a conversation it found waits for that row's lock; a
\* conversation of its own is an insert and waits for nothing.  The session
\* then holds the analytics row as committed at that moment (snap).
AskCount(i) ==
    /\ reqs[i].kind = "toy_ask" /\ reqs[i].pc = "count"
    /\ \A j \in DOMAIN reqs \ {i}, v \in reqs[i].rows :
          ~HoldsConversationLock(j, v)
    /\ reqs' = [reqs EXCEPT ![i].snap = analytics[reqs[i].stored],
                            ![i].pc = "commit"]
    /\ resp' = NoResp
    /\ UNCHANGED <<authVars, consumed, api_keys, domainVars, now>>

\* toy_ask: db.commit().  The unit of work writes the counters the session
\* computed from the row it read (UPDATE child_analytics SET
\* total_questions = <snap + 1>, weekly_questions = <snap + 1>), with the
\* conversation and the two messages.
AskCommit(i) ==
    /\ reqs[i].kind = "toy_ask" /\ reqs[i].pc = "commit"
    /\ LET c == reqs[i].stored
           v == IF reqs[i].rows = {} THEN NewId(conversations)
                ELSE CHOOSE w \in reqs[i].rows : TRUE
           n == Cardinality(messages)
       IN
       /\ conversations' =
             Extend(conversations, v, [child_id |-> c, last_activity |-> now])
       /\ messages' = messages \cup
             {[id |-> n + 1, conversation_id |-> v, role |-> "user"],
              [id |-> n + 2, conversation_id |-> v, role |-> "assistant"]}
       /\ analytics' = [analytics EXCEPT ![c] = CountQuestion(reqs[i].snap)]
    /\ reqs' = Finish(i, 200, "ok")
    /\ resp' = NoResp
    /\ UNCHANGED <<authVars, consumed, api_keys, children, toys, now>>

AskStep ==
    \E i \in DOMAIN reqs :
       AskVerify(i) \/ AskConversation(i) \/ AskCount(i) \/ AskCommit(i)

\* the family once child 1 has been paired with toy 1 (at second 0)
InitPaired ==
    /\ parents = InitParents
    /\ refresh_tokens = {NewRefreshRowAt(p, p, 0) : p \in ParentIds}
    /\ api_keys = InitApiKeys
    /\ children = [FamilyChildren EXCEPT ![1].toy_id = 1]
    /\ analytics = [c \in DOMAIN FamilyChildren |-> NewAnalytics]
    /\ toys = [InitToys EXCEPT ![1].is_active = TRUE, ![1].last_seen = 0]
    /\ conversations = <<>>
    /\ messages = {}
    /\ issuedAccess = {AccessTokenAt(p, InitParents[p], 0) : p \in ParentIds}
    /\ issuedRaw = Cardinality(ParentIds)
    /\ now = 0
    /\ resp = NoResp
    /\ consumed = {}
    /\ reqs = <<>>

\* questions answered before the overlapping requests arrive
AskBefore == reqs = <<>> /\ ToyAsk

NextAskConc == SetActiveChild \/ AskBefore \/ StartAsk \/ AskStep

SpecAskConc == InitPaired /\ [][NextAskConc]_vars

\* the questions stored for child c: one user message per successful /toy/ask
AskedFor(c) ==
    {m \in messages : /\ m.role = "user"
                      /\ conversations[m.conversation_id].child_id = c}

(* C22: the counters count every successful question.  Once the k          *)
(* successful /toy/ask requests for a child have completed, in any         *)
(* interleaving of their steps, the child's total_questions and            *)
(* weekly_questions both equal their initial value 0 plus k.               *)
C22_NoLostIncrement ==
    AllDone
       => \A c \in DOMAIN analytics :
             /\ analytics[c].total_questions = Cardinality(AskedFor(c))
             /\ analytics[c].weekly_questions = Cardinality(AskedFor(c))

-----------------------------------------------------------------------------
(* token_version under overlapping requests *)

\* a /auth/logout that runs from start to end with no other request in
\* between; its UPDATE of the parent row waits for a lock another holds
LogoutAlone ==
    \E tok \in issuedAccess :
       /\ HoldsParentLock(tok.sub) = {}
       /\ logout(tok)

NextLogoutConc == Login \/ Refresh \/ LogoutAlone \/ StartLogout \/ LogoutStep

SpecLogoutConc == InitLoggedIn /\ [][NextLogoutConc]_vars

\* request i answers 200 to a /auth/logout in this step
LogoutSucceeds(i) ==
    /\ reqs[i].kind = "logout"
    /\ reqs[i].pc # "done"
    /\ reqs'[i].pc = "done"
    /\ reqs'[i].status = 200

(* C23: a parent's token_version never decreases; a step in which a        *)
(* /auth/logout of the parent succeeds raises it by exactly 1, every other *)
(* step (login, refresh) leaves it unchanged; so an access                 *)
(* token that get_current_parent rejects as revoked stays rejected.        *)
C23_TokenVersionCountsLogouts ==
    [][/\ \A p \in DOMAIN parents :
             /\ parents'[p].token_version >= parents[p].token_version
             /\ parents'[p].token_version =
                   IF \/ \E i \in DOMAIN reqs :
                            LogoutSucceeds(i) /\ reqs[i].arg.sub = p
                      \/ resp'.op = "logout" /\ resp'.status = 200
                            /\ resp'.parent = p
                   THEN parents[p].token_version + 1
                   ELSE parents[p].token_version
       /\ \A tok \in issuedAccess :
             get_current_parent(tok)[2] = "Token revoked"
                => get_current_parent(tok)'[1] # 200]_vars

=============================================================================
